---- MODULE Spec2Model ----
(***************************************************************************)
(* Baby-name trend analysis (util.py): novelty detection, top-decile       *)
(* popularity, emergence tracking, trend setters and late adopters over an *)
(* immutable table of records (name, state, year, count).                  *)
(*                                                                         *)
(* The table is the variable df, fixed by Init and never written.  Every   *)
(* public function of util.py is one action: it records the call, the      *)
(* value returned, the exception that left the call (none of the functions *)
(* has a raise statement) and the local variables the function held when   *)
(* it returned.  The module is single-threaded and synchronous: a call     *)
(* starts when the caller has taken the result of the one before (Return). *)
(* The gender column is not part of a row: no function reads it.  Two rows *)
(* that differ only in gender and count are two rows that differ in count. *)
(*                                                                         *)
(* list(set(..)) and the order of equal keys in sort_values(kind=quicksort)*)
(* are decided by string hashing and by the sort's implementation; each is *)
(* a choice over every order the build can produce.                        *)
(***************************************************************************)
EXTENDS Integers, Sequences, FiniteSets

VARIABLES df, call, ret, raised, locals

vars == <<df, call, ret, raised, locals>>

\* ------------------------------------------------------------ bounds
MaxRows == 4
MaxPopRows == 3
MaxCount == 2
MaxNames == 11

\* ------------------------------------------------- program constants
PriorWindow == 11
Horizon == 10
LateSpan == 3

\* ------------------------------------------------------------ inputs
\* Names in alphabetical order: groupby(['name']) yields its index sorted.
NameSeq ==
  <<"Ava", "Ben", "Cal", "Dee", "Eli", "Fay", "Gus", "Hal", "Ivy", "Jon", "Kim", "Lee">>

Idx(n) == CHOOSE i \in 1..Len(NameSeq) : NameSeq[i] = n

FirstNames(k) == {NameSeq[i] : i \in 1..(IF k < Len(NameSeq) THEN k ELSE Len(NameSeq))}

States == {"CA", "TX"}

QueryYears == {2010, 2011}

QueryNames == {"Ava", "Ben"}

Records(names, states, years, counts) ==
  [name : names, state : states, year : years, count : counts]

RECURSIVE AtMost(_, _)
AtMost(R, k) ==
  IF k = 0 THEN {{}}
  ELSE LET P == AtMost(R, k - 1) IN P \cup {S \cup {r} : S \in P, r \in R}

\* ---------------------------------------------------------- helpers
RECURSIVE SumCount(_)
SumCount(S) ==
  IF S = {} THEN 0
  ELSE LET r == CHOOSE x \in S : TRUE IN r.count + SumCount(S \ {r})

RECURSIVE Perms(_)
Perms(S) ==
  IF S = {} THEN {<<>>}
  ELSE UNION {{<<x>> \o p : p \in Perms(S \ {x})} : x \in S}

Range(s) == {s[i] : i \in DOMAIN s}

RECURSIVE SetMin(_)
SetMin(S) ==
  LET x == CHOOSE e \in S : TRUE
  IN IF S = {x} THEN x
     ELSE LET m == SetMin(S \ {x}) IN IF x < m THEN x ELSE m

\* Mutant of new_names: the prior window starts one year late (> for >=).
new_names_short(d, year) ==
  LET previous == {r \in d : r.year > year - PriorWindow /\ r.year <= year - 1}
      previous_names == {r.name : r \in previous}
      current_names == {r.name : r \in {x \in d : x.year = year}}
  IN {name \in current_names : name \notin previous_names}

\* ------------------------------------------------------- Novelty Detector
new_names(d, year) ==
  LET previous == {r \in d : r.year >= year - PriorWindow /\ r.year <= year - 1}
      previous_names == {r.name : r \in previous}
      current_names == {r.name : r \in {x \in d : x.year = year}}
  IN {name \in current_names : name \notin previous_names}

\* ------------------------------------------------------ Geographic Locator
states_with_name(d, year, name) ==
  {r.state : r \in {x \in d : x.year = year /\ x.name = name}}

\* ------------------------------------------------------- Popularity Ranker
\* current[['name','count']].groupby(['name']).sum(): name -> summed count
grouped(d, year) ==
  LET current == {r \in d : r.year = year}
  IN [n \in {r.name : r \in current} |-> SumCount({r \in current : r.name = n})]

RECURSIVE SumOver(_, _)
SumOver(f, S) ==
  IF S = {} THEN 0
  ELSE LET n == CHOOSE x \in S : TRUE IN f[n] + SumOver(f, S \ {n})

total(d, year) == SumOver(grouped(d, year), DOMAIN grouped(d, year))

\* (count / total) * 100.  numpy divides by zero without raising: 0/0 is NaN.
\* A finite percentage is kept exactly, as its numerator over the year's total
\* (the same denominator for every name of the year).
percentage(count, tot) ==
  IF tot = 0 THEN [nan |-> TRUE, num |-> 0] ELSE [nan |-> FALSE, num |-> count * 100]

\* Mutant of top: floor plus one for ceil.
top_floor(n) == (n \div 10) + 1

\* math.ceil(len(current) * .1); the double product never crosses an integer.
top(n) == (n + 9) \div 10

\* Mutant of SortFirst: ascending=True.
SortFirst_asc(pct, rem) ==
  LET finite == {n \in rem : ~pct[n].nan}
  IN IF finite # {}
     THEN {n \in finite : \A m \in finite : pct[n].num <= pct[m].num}
     ELSE {n \in rem : \A m \in rem : Idx(n) <= Idx(m)}

\* The label that sort_values(by='percentage', ascending=False) may put first
\* among rem: a largest finite percentage (equal keys in any order); NaN rows
\* go last (na_position='last'), in index order.
SortFirst(pct, rem) ==
  LET finite == {n \in rem : ~pct[n].nan}
  IN IF finite # {}
     THEN {n \in finite : \A m \in finite : pct[n].num >= pct[m].num}
     ELSE {n \in rem : \A m \in rem : Idx(n) <= Idx(m)}

\* The sets that the first k rows of the sorted frame may hold.
RECURSIVE SortedHead(_, _, _)
SortedHead(pct, rem, k) ==
  IF k = 0 \/ rem = {} THEN {{}}
  ELSE UNION {{{n} \cup S : S \in SortedHead(pct, rem \ {n}, k - 1)} :
              n \in SortFirst(pct, rem)}

popular_names(d, year) ==
  LET current == grouped(d, year)
      tot == total(d, year)
      pct == [n \in DOMAIN current |-> percentage(current[n], tot)]
  IN SortedHead(pct, DOMAIN current, top(Cardinality(DOMAIN current)))

\* -------------------------------------------------------- Emergence Tracker
\* A dict is kept as the sequence of its items in insertion order, which is the
\* order in which "for name in names" visits it.
Keys(dict) == {dict[i].key : i \in DOMAIN dict}

\* if name not in becomed.keys(): becomed[name]=[y]  else: becomed[name].append(y)
Record(becomed, name, y) ==
  IF name \notin Keys(becomed)
  THEN Append(becomed, [key |-> name, val |-> <<y>>])
  ELSE [i \in DOMAIN becomed |->
          IF becomed[i].key = name
          THEN [key |-> name, val |-> Append(becomed[i].val, y)]
          ELSE becomed[i]]

\* for name in inter: ...
RECURSIVE RecordAll(_, _, _)
RecordAll(becomed, inter, y) ==
  IF inter = <<>> THEN becomed
  ELSE RecordAll(Record(becomed, Head(inter), y), Tail(inter), y)

\* for y in range(year, year+10): the runs of the loop up to y, given its runs
\* before y.  A run is the dict built so far with the set popular_names
\* returned for each year (pops).
RECURSIVE BecomedLoop(_, _, _, _, _)
BecomedLoop(d, new, y, stop, runs) ==
  IF y >= stop THEN runs
  ELSE BecomedLoop(d, new, y + 1, stop,
         UNION {UNION {{[becomed |-> RecordAll(r.becomed, inter, y),
                         pops |-> [z \in DOMAIN r.pops \cup {y} |->
                                     IF z = y THEN pop ELSE r.pops[z]]] : r \in runs} :
                       inter \in Perms(new \cap pop)} :
                pop \in popular_names(d, y)})

NoPops == [z \in {} |-> {}]

\* Mutant of becomed_runs: the horizon runs one year too far.
becomed_runs_long(d, year) ==
  BecomedLoop(d, new_names(d, year), year, year + Horizon + 1,
              {[becomed |-> <<>>, pops |-> NoPops]})

becomed_runs(d, year) ==
  BecomedLoop(d, new_names(d, year), year, year + Horizon,
              {[becomed |-> <<>>, pops |-> NoPops]})

becomed_popular(d, year) == {r.becomed : r \in becomed_runs(d, year)}

\* ------------------------------------------------------ Trend-Setter Finder
\* for name in names: states += list(states_with_name(df, year, name))
RECURSIVE TrendLoop(_, _, _, _)
TrendLoop(d, year, names, lists) ==
  IF names = <<>> THEN lists
  ELSE TrendLoop(d, year, Tail(names),
         {states \o l : states \in lists,
                        l \in Perms(states_with_name(d, year, Head(names).key))})

\* Mutant of trend_setter_of: the regions of the year the name became popular.
RECURSIVE TrendLoopPopular(_, _, _)
TrendLoopPopular(d, names, lists) ==
  IF names = <<>> THEN lists
  ELSE TrendLoopPopular(d, Tail(names),
         {states \o l : states \in lists,
                        l \in Perms(states_with_name(d, Head(names).val[1], Head(names).key))})

trend_setter_of_popular(d, year, names) == TrendLoopPopular(d, names, {<<>>})

trend_setter_of(d, year, names) == TrendLoop(d, year, names, {<<>>})

trend_setter(d, year) ==
  UNION {trend_setter_of(d, year, names) : names \in becomed_popular(d, year)}

\* ------------------------------------------------------ Late-Adopter Finder
\* for p in range(lo, hi): acc += list(states_with_name(df, p, name))
RECURSIVE YearsLoop(_, _, _, _, _)
YearsLoop(d, name, p, hi, lists) ==
  IF p >= hi THEN lists
  ELSE YearsLoop(d, name, p + 1, hi,
         {acc \o l : acc \in lists, l \in Perms(states_with_name(d, p, name))})

\* Mutant of Filter: exclusion per occurrence, one of late for one of early.
RECURSIVE DropOne(_, _)
DropOne(list, x) ==
  IF list = <<>> THEN <<>>
  ELSE IF Head(list) = x THEN Tail(list) ELSE <<Head(list)>> \o DropOne(Tail(list), x)

RECURSIVE Filter_occurrence(_, _)
Filter_occurrence(late, early) ==
  IF late = <<>> THEN <<>>
  ELSE IF Head(late) \notin Range(early)
       THEN <<Head(late)>> \o Filter_occurrence(Tail(late), early)
       ELSE Filter_occurrence(Tail(late), DropOne(early, Head(late)))

\* [state for state in late if state not in early]
RECURSIVE Filter(_, _)
Filter(late, early) ==
  IF late = <<>> THEN <<>>
  ELSE IF Head(late) \notin Range(early)
       THEN <<Head(late)>> \o Filter(Tail(late), early)
       ELSE Filter(Tail(late), early)

\* One pass of "for name, y in names.items()": the lists it may add.
LateOf(d, year, name, y) ==
  {Filter(late, early) :
     early \in YearsLoop(d, name, year, y, {<<>>}),
     late \in YearsLoop(d, name, y, y + LateSpan, {<<>>})}

\* Mutant of FirstPopular: the first popular year itself, without the + 1.
FirstPopular_same(names) ==
  [i \in DOMAIN names |-> [key |-> names[i].key, val |-> SetMin(Range(names[i].val))]]

\* names = {name: min(years)+1 for name, years in names.items()}
FirstPopular(names) ==
  [i \in DOMAIN names |-> [key |-> names[i].key, val |-> SetMin(Range(names[i].val)) + 1]]

\* The runs of "for name, y in names.items()": the list built so far, with
\* the list each name added (parts).
RECURSIVE LateLoop(_, _, _, _)
LateLoop(d, year, names, runs) ==
  IF names = <<>> THEN runs
  ELSE LateLoop(d, year, Tail(names),
         {[states |-> r.states \o l, parts |-> Append(r.parts, l)] :
            r \in runs, l \in LateOf(d, year, Head(names).key, Head(names).val)})

late_adopters_of(d, year, names) ==
  LateLoop(d, year, FirstPopular(names), {[states |-> <<>>, parts |-> <<>>]})

late_adopters(d, year) ==
  UNION {{r.states : r \in late_adopters_of(d, year, names)} :
         names \in becomed_popular(d, year)}

\* -------------------------------------------------------- Period Aggregators
\* for s in states_year: states[s] = 1 if new else states[s] + 1
RECURSIVE Tally(_, _)
Tally(states, list) ==
  IF list = <<>> THEN states
  ELSE Tally(IF Head(list) \notin DOMAIN states
             THEN [s \in DOMAIN states \cup {Head(list)} |->
                     IF s = Head(list) THEN 1 ELSE states[s]]
             ELSE [states EXCEPT ![Head(list)] = @ + 1],
             Tail(list))

EmptyDict == [s \in {} |-> 0]

NoLists == [y \in {} |-> <<>>]

\* A step of the period loops: the run r after the finder returned list l for
\* year.   if len(states_year)>0: for s in states_year: ...
PeriodStep(r, year, l) ==
  [states |-> IF Len(l) > 0 THEN Tally(r.states, l) ELSE r.states,
   lists |-> [y \in DOMAIN r.lists \cup {year} |-> IF y = year THEN l ELSE r.lists[y]]]

\* The runs of "for year in range(start, end+1)" in trend_setter_period: the
\* dict built so far, with the list trend_setter returned for each year.
RECURSIVE TrendPeriodLoop(_, _, _, _)
TrendPeriodLoop(d, year, stop, runs) ==
  IF year >= stop THEN runs
  ELSE TrendPeriodLoop(d, year + 1, stop,
         {PeriodStep(r, year, l) : r \in runs, l \in trend_setter(d, year)})

\* The same loop in late_adopters_period, over late_adopters.
RECURSIVE LatePeriodLoop(_, _, _, _)
LatePeriodLoop(d, year, stop, runs) ==
  IF year >= stop THEN runs
  ELSE LatePeriodLoop(d, year + 1, stop,
         {PeriodStep(r, year, l) : r \in runs, l \in late_adopters(d, year)})

\* Mutant of trend_setter_period: range(start, end), the end year left out.
trend_setter_period_open(d, start, end) ==
  TrendPeriodLoop(d, start, end, {[states |-> EmptyDict, lists |-> NoLists]})

trend_setter_period(d, start, end) ==
  TrendPeriodLoop(d, start, end + 1, {[states |-> EmptyDict, lists |-> NoLists]})

late_adopters_period(d, start, end) ==
  LatePeriodLoop(d, start, end + 1, {[states |-> EmptyDict, lists |-> NoLists]})

\* ---------------------------------------------------------------- state
NoCall == [op |-> "none", args |-> <<>>]

\* The value returned, by the type the function returns: a set of strings, a
\* list of strings, the dict of becomed_popular, or a dict of counts.
NoRet == [set |-> {}, list |-> <<>>, dict |-> <<>>, tally |-> EmptyDict]

\* The locals of the call at its return: the dict "names" and the list each
\* name added (late_adopters), the set popular_names returned for each year
\* (becomed_popular), the list the finder returned for each year (periods).
NoLocals == [names |-> <<>>, parts |-> <<>>, pops |-> NoPops, lists |-> NoLists]

\* Adoption tables: two names in two regions over the five years that hold
\* the late windows of a name that emerges in 2010 or 2011.  Every row counts
\* one registration: a name outranks another by its number of rows, and equal
\* sums are ranked either way.
Datasets ==
  AtMost(Records(FirstNames(2), States, 2010..2014, {1}), MaxRows)

\* Window tables: one region, the years at and around the ends of the prior
\* window [year-11, year-1] and of the horizon [year, year+9] of 2010 and 2011.
WindowDatasets ==
  AtMost(Records(FirstNames(2), {"CA"},
                 {1998, 1999, 2000, 2009, 2010, 2011, 2019, 2020, 2021}, {1}), MaxRows)

\* Ranking tables: one year; up to MaxPopRows rows of any count from 0 on for
\* the first two names, and a crowd of further names, NameSeq[3..n], with one
\* row of one registration each.
Crowd(n) ==
  {[name |-> NameSeq[i], state |-> "CA", year |-> 2010, count |-> 1] : i \in 3..n}

PopRows == AtMost(Records(FirstNames(2), States, {2010}, 0..MaxCount), MaxPopRows)

Start ==
  /\ call = NoCall
  /\ ret = NoRet
  /\ raised = "none"
  /\ locals = NoLocals

Init == df \in Datasets /\ Start

InitWindow == df \in WindowDatasets /\ Start

InitPop ==
  /\ \E n \in 2..MaxNames : \E rows \in PopRows : df = rows \cup Crowd(n)
  /\ Start

NewNames(year) ==
  /\ call = NoCall
  /\ call' = [op |-> "new_names", args |-> <<year>>]
  /\ ret' = [NoRet EXCEPT !.set = new_names(df, year)]
  /\ raised' = "none"
  /\ locals' = NoLocals
  /\ UNCHANGED df

StatesWithName(year, name) ==
  /\ call = NoCall
  /\ call' = [op |-> "states_with_name", args |-> <<year, name>>]
  /\ ret' = [NoRet EXCEPT !.set = states_with_name(df, year, name)]
  /\ raised' = "none"
  /\ locals' = NoLocals
  /\ UNCHANGED df

PopularNames(year) ==
  /\ call = NoCall
  /\ call' = [op |-> "popular_names", args |-> <<year>>]
  /\ \E names \in popular_names(df, year) : ret' = [NoRet EXCEPT !.set = names]
  /\ raised' = "none"
  /\ locals' = NoLocals
  /\ UNCHANGED df

\* locals: year -> the set the call got from popular_names for that year
BecomedPopular(year) ==
  /\ call = NoCall
  /\ call' = [op |-> "becomed_popular", args |-> <<year>>]
  /\ \E r \in becomed_runs(df, year) :
       /\ ret' = [NoRet EXCEPT !.dict = r.becomed]
       /\ locals' = [NoLocals EXCEPT !.pops = r.pops]
  /\ raised' = "none"
  /\ UNCHANGED df

\* locals: the dict "names" the call got from becomed_popular
TrendSetter(year) ==
  /\ call = NoCall
  /\ call' = [op |-> "trend_setter", args |-> <<year>>]
  /\ \E names \in becomed_popular(df, year) :
       /\ \E states \in trend_setter_of(df, year, names) :
            ret' = [NoRet EXCEPT !.list = states]
       /\ locals' = [NoLocals EXCEPT !.names = names]
  /\ raised' = "none"
  /\ UNCHANGED df

\* locals: the dict "names" the call got from becomed_popular, and the list
\* each of its names added
LateAdopters(year) ==
  /\ call = NoCall
  /\ call' = [op |-> "late_adopters", args |-> <<year>>]
  /\ \E names \in becomed_popular(df, year) :
       \E r \in late_adopters_of(df, year, names) :
         /\ ret' = [NoRet EXCEPT !.list = r.states]
         /\ locals' = [NoLocals EXCEPT !.names = names, !.parts = r.parts]
  /\ raised' = "none"
  /\ UNCHANGED df

\* locals: year -> the list the call got from trend_setter for that year
TrendSetterPeriod(start, end) ==
  /\ call = NoCall
  /\ call' = [op |-> "trend_setter_period", args |-> <<start, end>>]
  /\ \E r \in trend_setter_period(df, start, end) :
       /\ ret' = [NoRet EXCEPT !.tally = r.states]
       /\ locals' = [NoLocals EXCEPT !.lists = r.lists]
  /\ raised' = "none"
  /\ UNCHANGED df

\* locals: year -> the list the call got from late_adopters for that year
LateAdoptersPeriod(start, end) ==
  /\ call = NoCall
  /\ call' = [op |-> "late_adopters_period", args |-> <<start, end>>]
  /\ \E r \in late_adopters_period(df, start, end) :
       /\ ret' = [NoRet EXCEPT !.tally = r.states]
       /\ locals' = [NoLocals EXCEPT !.lists = r.lists]
  /\ raised' = "none"
  /\ UNCHANGED df

\* The caller takes the result; the next call starts from there.
Return ==
  /\ call # NoCall
  /\ call' = NoCall
  /\ ret' = NoRet
  /\ raised' = "none"
  /\ locals' = NoLocals
  /\ UNCHANGED df

Next ==
  \/ \E year \in QueryYears : NewNames(year)
  \/ \E year \in QueryYears, name \in QueryNames : StatesWithName(year, name)
  \/ \E year \in QueryYears : PopularNames(year)
  \/ \E year \in QueryYears : BecomedPopular(year)
  \/ \E year \in QueryYears : TrendSetter(year)
  \/ \E year \in QueryYears : LateAdopters(year)
  \/ \E start \in QueryYears, end \in QueryYears : TrendSetterPeriod(start, end)
  \/ \E start \in QueryYears, end \in QueryYears : LateAdoptersPeriod(start, end)
  \/ Return

Spec == Init /\ [][Next]_vars

SpecWindow == InitWindow /\ [][Next]_vars

SpecPop == InitPop /\ [][Next]_vars

\* ================================================================ claims
\* What the table holds, read off its rows.
Reports(s, n, y) == \E r \in df : r.state = s /\ r.name = n /\ r.year = y

HasName(n, y) == \E r \in df : r.name = n /\ r.year = y

\* How many times x occurs in the list s.
Occurrences(s, x) == Cardinality({i \in DOMAIN s : s[i] = x})

DfNames == {r.name : r \in df}

DfStates == {r.state : r \in df}

NamesOfYear(y) == {r.name : r \in {x \in df : x.year = y}}

\* A name of year Y with no row in the 11 years before Y.
NewIn(Y) ==
  {n \in DfNames : HasName(n, Y) /\ \A y \in (Y - 11)..(Y - 1) : ~HasName(n, y)}

RECURSIVE Flatten(_)
Flatten(parts) == IF parts = <<>> THEN <<>> ELSE Head(parts) \o Flatten(Tail(parts))

\* C1: new_names(D,Y) is exactly the set of names with a record in year Y and
\* none in [Y-11, Y-1]: a subset of the names of Y, disjoint from the names of
\* the 11 years before; a record older than Y-11 does not prevent novelty.
C1_NewNamesWindow ==
  call.op = "new_names" =>
    LET Y == call.args[1] IN
    /\ ret.set = NewIn(Y)
    /\ ret.set \subseteq NamesOfYear(Y)
    /\ \A y \in (Y - 11)..(Y - 1) : ret.set \cap NamesOfYear(y) = {}

\* C1 witness: one name of Y is new although it has a row in Y-12, another
\* name of Y is not new because of its row in Y-11.
C1_Witness ==
  /\ call.op = "new_names"
  /\ \E n \in ret.set : HasName(n, call.args[1] - 12)
  /\ \E m \in NamesOfYear(call.args[1]) \ ret.set : HasName(m, call.args[1] - 11)

FirstAfter(names, i) == SetMin(Range(names[i].val)) + 1

\* C3: the part of late_adopters(D,Y) that name n adds, with f = min(emergence
\* years) + 1, is the concatenation over q in [f, f+2] of the regions that
\* report n in q and in no year of [Y, f): a region of the early window occurs
\* zero times, any other region once per late year in which it reports n.  The
\* result is the concatenation of the parts.  With CA reporting a name in 2010
\* and 2011, TX only in 2012 and f = 2011, the part holds TX and not CA.
C3_LateAdopters ==
  call.op = "late_adopters" =>
    LET Y == call.args[1]
        names == locals.names
        parts == locals.parts
        Early(i, s) == \E p \in Y..(FirstAfter(names, i) - 1) : Reports(s, names[i].key, p)
        LateYears(i, s) ==
          {q \in FirstAfter(names, i)..(FirstAfter(names, i) + 2) : Reports(s, names[i].key, q)}
    IN /\ Len(parts) = Len(names)
       /\ ret.list = Flatten(parts)
       /\ \A i \in DOMAIN names : \A s \in DfStates \cup Range(parts[i]) :
            Occurrences(parts[i], s) =
              IF Early(i, s) THEN 0 ELSE Cardinality(LateYears(i, s))
       /\ \A i \in DOMAIN names :
            \E q \in [DOMAIN parts[i] -> FirstAfter(names, i)..(FirstAfter(names, i) + 2)] :
              /\ \A a, b \in DOMAIN parts[i] : a < b => q[a] <= q[b]
              /\ \A a \in DOMAIN parts[i] : Reports(parts[i][a], names[i].key, q[a])
              /\ \A a, b \in DOMAIN parts[i] :
                   (parts[i][a] = parts[i][b] /\ q[a] = q[b]) => a = b
       /\ \A i \in DOMAIN names :
            (/\ Y = 2010
             /\ FirstAfter(names, i) = 2011
             /\ Reports("CA", names[i].key, 2010)
             /\ Reports("CA", names[i].key, 2011)
             /\ Reports("TX", names[i].key, 2012)
             /\ \A y \in {2010, 2011} : ~Reports("TX", names[i].key, y))
            => ("TX" \in Range(parts[i]) /\ "CA" \notin Range(parts[i]))

\* C3 witness: the scenario of the claim, with a name that CA also reports in
\* the late window: TX is returned, CA is not.
C3_Witness ==
  /\ call.op = "late_adopters"
  /\ call.args[1] = 2010
  /\ \E i \in DOMAIN locals.names :
       /\ FirstAfter(locals.names, i) = 2011
       /\ Reports("CA", locals.names[i].key, 2010)
       /\ Reports("CA", locals.names[i].key, 2011)
       /\ Reports("TX", locals.names[i].key, 2012)
       /\ \A y \in {2010, 2011, 2013} : ~Reports("TX", locals.names[i].key, y)
  /\ ret.list = <<"TX">>

\* C4: trend_setter_period(D,start,end) maps each region to the number of its
\* occurrences in the lists trend_setter returned for the years of
\* [start, end], both ends included; a region that never occurs is no key, and
\* the map is empty when start > end or every list is empty.
C4_TrendSetterPeriod ==
  call.op = "trend_setter_period" =>
    LET start == call.args[1]
        end == call.args[2]
        Count(s) == SumOver([y \in start..end |-> Occurrences(locals.lists[y], s)], start..end)
        Regions == UNION {Range(locals.lists[y]) : y \in start..end}
    IN /\ DOMAIN locals.lists = start..end
       /\ \A y \in start..end : locals.lists[y] \in trend_setter(df, y)
       /\ DOMAIN ret.tally = Regions
       /\ \A s \in DOMAIN ret.tally : ret.tally[s] = Count(s) /\ ret.tally[s] > 0
       /\ (start > end \/ \A y \in start..end : locals.lists[y] = <<>>) => ret.tally = EmptyDict

\* C4 witness: a period of two years whose lists both hold the same region,
\* which is counted twice.
C4_Witness ==
  /\ call.op = "trend_setter_period"
  /\ call.args[1] < call.args[2]
  /\ \E s \in DOMAIN ret.tally :
       /\ ret.tally[s] = 2
       /\ Occurrences(locals.lists[call.args[1]], s) >= 1
       /\ Occurrences(locals.lists[call.args[2]], s) >= 1

\* C5: trend_setter(D,Y) holds each region once per key of becomed_popular(D,Y)
\* that the region reports in year Y itself (never the year the name became
\* popular), and is empty when the dict is empty.
C5_TrendSetter ==
  call.op = "trend_setter" =>
    LET Y == call.args[1] IN
    /\ \A s \in DfStates \cup Range(ret.list) :
         Occurrences(ret.list, s) = Cardinality({n \in Keys(locals.names) : Reports(s, n, Y)})
    /\ locals.names = <<>> => ret.list = <<>>

\* C5 witness: a name that became popular after Y, in a year in which a region
\* reports it that did not report it in Y; the region is not returned.
C5_Witness ==
  /\ call.op = "trend_setter"
  /\ ret.list # <<>>
  /\ \E i \in DOMAIN locals.names : \E s \in DfStates :
       /\ locals.names[i].val[1] > call.args[1]
       /\ Reports(s, locals.names[i].key, locals.names[i].val[1])
       /\ ~Reports(s, locals.names[i].key, call.args[1])
       /\ s \notin Range(ret.list)

\* C6: popular_names(D,Y) returns at most ceil(0.1 * distinct names of Y)
\* names, all of them names of year Y, and the empty set, without raising,
\* when year Y has no record.
C6_PopularBound ==
  call.op = "popular_names" =>
    LET Y == call.args[1] IN
    /\ 10 * Cardinality(ret.set) < Cardinality(NamesOfYear(Y)) + 10
    /\ ret.set \subseteq NamesOfYear(Y)
    /\ NamesOfYear(Y) = {} => (ret.set = {} /\ raised = "none")

\* C6 witness: a year of ten distinct names, of which one is returned.
C6_Witness ==
  /\ call.op = "popular_names"
  /\ Cardinality(NamesOfYear(call.args[1])) = 10
  /\ Cardinality(ret.set) = 1

\* The summed count of name n in year y, over all rows.
NameCount(n, y) == SumCount({r \in df : r.name = n /\ r.year = y})

\* C7: when the total count of year Y is positive, popular_names(D,Y) holds
\* exactly ceil(0.1 * distinct names of Y) names, and the summed count of each
\* is at least the summed count of every name of Y that is not returned.
C7_PopularTop ==
  (call.op = "popular_names" /\ SumCount({r \in df : r.year = call.args[1]}) > 0) =>
    LET Y == call.args[1]
        k == Cardinality(ret.set)
        n == Cardinality(NamesOfYear(Y))
    IN /\ 10 * k >= n /\ 10 * (k - 1) < n
       /\ \A a \in ret.set : \A b \in NamesOfYear(Y) \ ret.set : NameCount(a, Y) >= NameCount(b, Y)

\* C7 witness: eleven names or more, two returned; one of them has two rows
\* that sum to more than any row of a name left out, and a name left out has
\* a row that counts as much as either of the two.
C7_Witness ==
  /\ call.op = "popular_names"
  /\ Cardinality(ret.set) = 2
  /\ \E a \in ret.set : \E b \in NamesOfYear(call.args[1]) \ ret.set :
       /\ Cardinality({r \in df : r.name = a /\ r.year = call.args[1]}) = 2
       /\ \A r \in df : (r.name = a /\ r.year = call.args[1]) => r.count <= NameCount(b, call.args[1])
       /\ NameCount(a, call.args[1]) > NameCount(b, call.args[1])

\* A year with rows whose counts sum to zero.
ZeroTotal(y) == {r \in df : r.year = y} # {} /\ SumCount({r \in df : r.year = y}) = 0

\* C8: ranking a year whose total count is zero fails with a DataError that
\* reaches the caller of popular_names, and of becomed_popular, trend_setter
\* and late_adopters when one of the years they rank has zero total.
C8_ZeroTotalRaises ==
  (\/ call.op = "popular_names" /\ ZeroTotal(call.args[1])
   \/ /\ call.op \in {"becomed_popular", "trend_setter", "late_adopters"}
      /\ \E y \in call.args[1]..(call.args[1] + 9) : ZeroTotal(y))
  => raised = "DataError"

\* C10: for every key n of becomed_popular(D,Y) the first popular year m is
\* at least Y, so the early window [Y, m+1) holds Y and m: no region that
\* reports n in Y or in m is in the part n adds to late_adopters(D,Y), and
\* every region of the part reports n in a year of [m+1, m+3].
C10_EarlyWindow ==
  call.op = "late_adopters" =>
    LET Y == call.args[1]
        names == locals.names
        parts == locals.parts
        m(i) == SetMin(Range(names[i].val))
    IN \A i \in DOMAIN names :
         /\ m(i) >= Y
         /\ FirstAfter(names, i) >= Y + 1
         /\ \A s \in DfStates :
              (Reports(s, names[i].key, Y) \/ Reports(s, names[i].key, m(i)))
                => s \notin Range(parts[i])
         /\ \A s \in Range(parts[i]) :
              \E q \in (m(i) + 1)..(m(i) + 3) : Reports(s, names[i].key, q)

\* C10 witness: a name that became popular after Y; a region reports it for
\* the first time in that year and again the year after, and is not returned.
C10_Witness ==
  /\ call.op = "late_adopters"
  /\ \E i \in DOMAIN locals.names : \E s \in DfStates :
       LET n == locals.names[i].key
           first == SetMin(Range(locals.names[i].val))
       IN /\ first > call.args[1]
          /\ Reports(s, n, first)
          /\ Reports(s, n, first + 1)
          /\ \A p \in call.args[1]..(first - 1) : ~Reports(s, n, p)
          /\ s \notin Range(locals.parts[i])
====
